---- MODULE Spec2Model ----
(***************************************************************************)
(* Model of Python/34_Segmentation_Evaluation.ipynb: the notebook reads N  *)
(* manual segmentations, derives a reference by majority vote and by       *)
(* STAPLE, and fills one overlap table and one surface-distance table with *)
(* a row per rater.                                                        *)
(*                                                                         *)
(* Images are functions from voxel index to value.  Python lists are heap  *)
(* objects (lists[id]); a notebook name that holds a list holds its id, so *)
(* that list(x) and x are different things.  Filter objects keep the       *)
(* result of their last Execute; getters read that stored result.          *)
(*                                                                         *)
(* The toolkit calls are modelled by what the called filter computes:      *)
(*  - LabelVoting: per-voxel tally, ties give labelForUndecidedPixels      *)
(*    (stated in the notebook's comment above the call);                   *)
(*  - LabelOverlapMeasuresImageFilter: Execute(source, target) counts     *)
(*    source, target, intersection, union and the two complements over     *)
(*    the non-background labels; the getters are quotients of these        *)
(*    counts.  A quotient is kept as the pair (num, den); a zero           *)
(*    denominator is kept as such, the value returned then is the          *)
(*    toolkit's fallback and is fixed nowhere in this repository;          *)
(*  - STAPLE: the estimator's numbers are not determined by anything in    *)
(*    this repository, so the call may return any probability map;         *)
(*  - Hausdorff distance, distance map, contour and intensity statistics   *)
(*    are kept as the term naming the computation and its inputs.          *)
(***************************************************************************)
EXTENDS Integers, Sequences, FiniteSets, TLC

\* ---- bounds -------------------------------------------------------------
NumVoxels == 2
NumVoteVoxels == 1
MaxLabel == 2
MaxRaters == 3

\* ---- notebook constants ---------------------------------------------------
labelForUndecidedPixels == 10
foregroundValue == 1
\* threshold = 0.95, probabilities are kept in hundredths
threshold == 95
label == 1

\* voxel positions of the images of a notebook run
Voxels == 1..NumVoxels
\* voxel positions of the label images given to the vote on its own
VoteVoxels == 1..NumVoteVoxels
Labels == 0..MaxLabel
BinaryLabels == {0, 1}
\* probabilities (hundredths) an estimate may take at a voxel: exactly the
\* threshold and just above it, the two sides of the comparison
ProbLevels == {95, 96}

\* Python's None / a name not yet bound
None == <<>>

\* ---- small helpers --------------------------------------------------------
Count(S) == Cardinality(S)

Max(S) == CHOOSE x \in S : \A y \in S : y <= x

\* a quotient num/den, not yet divided
R(n, d) == [num |-> n, den |-> d]
\* np.zeros entry
Zero == R(0, 1)

\* ---- sitk.LabelVoting -------------------------------------------------------
\* number of inputs that carry label l at voxel v
Votes(grids, v, l) == Count({j \in 1..Len(grids) : grids[j][v] = l})

\* one more than the largest label value present in the inputs
TotalLabelCount(grids) ==
  1 + Max({grids[j][v] : j \in 1..Len(grids), v \in DOMAIN grids[1]})

\* the filter's scan over the labels 1..total-1 at one voxel: a label with
\* more votes than the best so far becomes the output, a label with as many
\* votes as the best so far turns the output into the undecided label
RECURSIVE VoteScan(_, _, _, _, _, _, _)
VoteScan(grids, v, l, total, out, maxVotes, undecided) ==
  IF l >= total THEN out
  ELSE IF Votes(grids, v, l) > maxVotes
       THEN VoteScan(grids, v, l + 1, total, l, Votes(grids, v, l), undecided)
       ELSE IF Votes(grids, v, l) = maxVotes
            THEN VoteScan(grids, v, l + 1, total, undecided, maxVotes, undecided)
            ELSE VoteScan(grids, v, l + 1, total, out, maxVotes, undecided)

LabelVotingTiesToLowest(grids, undecided) ==
  [v \in DOMAIN grids[1] |->
     CHOOSE l \in 0..(TotalLabelCount(grids) - 1) :
       /\ \A k \in 0..(TotalLabelCount(grids) - 1) :
             Votes(grids, v, k) <= Votes(grids, v, l)
       /\ \A k \in 0..(l - 1) : Votes(grids, v, k) < Votes(grids, v, l)]

LabelVoting(grids, undecided) ==
  [v \in DOMAIN grids[1] |->
     VoteScan(grids, v, 1, TotalLabelCount(grids), 0, Votes(grids, v, 0), undecided)]

\* ---- sitk.STAPLE and the thresholding --------------------------------------
\* the probability maps the call may return
STAPLE(images, fg) == [DOMAIN images[1] -> ProbLevels]

\* image > constant: 1 where the voxel value exceeds the constant, else 0
GreaterThan(image, c) == [v \in DOMAIN image |-> IF image[v] > c THEN 1 ELSE 0]

\* ---- Python lists ----------------------------------------------------------
\* list(x): the id of the object the result is; the new object fresh holds
\* the elements of src
list_alias(src, fresh) == src

list(src, fresh) == fresh

\* ---- sitk.LabelOverlapMeasuresImageFilter ----------------------------------
\* Execute(source, target): the first image is the source, the second the
\* target.  The filter counts per label and the getters used here sum over
\* all labels but the background 0; the sums are written out directly: a
\* voxel adds to the source (target) count when its source (target) value
\* is a label, to the intersection when both carry the same label, to a
\* complement when the image carries a label the other image does not carry
\* there, and to the union once per label it carries in either image.
OverlapExecute(image1, image2) ==
  LET V == DOMAIN image1 IN
  [executed           |-> TRUE,
   m_Source           |-> Count({v \in V : image1[v] # 0}),
   m_Target           |-> Count({v \in V : image2[v] # 0}),
   m_Union            |-> Count({v \in V : image1[v] # 0})
                          + Count({v \in V : image2[v] # 0 /\ image2[v] # image1[v]}),
   m_Intersection     |-> Count({v \in V : image1[v] # 0 /\ image1[v] = image2[v]}),
   m_SourceComplement |-> Count({v \in V : image1[v] # 0 /\ image2[v] # image1[v]}),
   m_TargetComplement |-> Count({v \in V : image2[v] # 0 /\ image1[v] # image2[v]})]

OverlapNotExecuted ==
  [executed |-> FALSE, m_Source |-> 0, m_Target |-> 0, m_Union |-> 0,
   m_Intersection |-> 0, m_SourceComplement |-> 0, m_TargetComplement |-> 0]

GetJaccardCoefficient(f) == R(f.m_Intersection, f.m_Union)
GetDiceCoefficient(f) == R(2 * f.m_Intersection, f.m_Source + f.m_Target)
\* 2*(v1-v2)/(v1+v2), v1 the source volume and v2 the target volume
GetVolumeSimilarity(f) == R(2 * (f.m_Source - f.m_Target), f.m_Source + f.m_Target)
GetFalseNegativeError(f) == R(f.m_TargetComplement, f.m_Target)
GetFalsePositiveError(f) == R(f.m_SourceComplement, f.m_Source)

\* ---- surface distance: kept as terms ---------------------------------------
Term(op, a, b) == [op |-> op, a |-> a, b |-> b]
ZeroTerm == Term("zero", None, None)

SignedMaurerDistanceMap(image) == Term("SignedMaurerDistanceMap", image, None)
Abs(image) == Term("Abs", image, None)
LabelContour(image) == Term("LabelContour", image, None)
HausdorffExecute(image1, image2) == Term("HausdorffDistance", image1, image2)
StatisticsExecute(labelImage, intensityImage) ==
  Term("LabelIntensityStatistics", labelImage, intensityImage)
GetStatistic(name, f, l) == Term(name, f, l)

OverlapMeasures ==
  {"jaccard", "dice", "volume_similarity", "false_negative", "false_positive"}
SurfaceDistanceMeasures ==
  {"hausdorff_distance", "mean_surface_distance", "median_surface_distance",
   "std_surface_distance", "max_surface_distance"}

ZeroOverlapRow == [m \in OverlapMeasures |-> Zero]
ZeroSurfaceRow == [m \in SurfaceDistanceMeasures |-> ZeroTerm]

\* np.zeros((n, 5))
Zeros(n, row) == [k \in 1..n |-> row]

\* ---- state ----------------------------------------------------------------
VARIABLES
  files,      \* the segmentation files on disk, one image per rater
  pc,         \* the next cell / statement group to run
  lists,      \* heap of Python list objects: id -> elements
  segmentations,
  reference_segmentation_majority_vote,
  manual_plus_majority_vote,
  reference_segmentation_STAPLE_probabilities,
  reference_segmentation_STAPLE,
  manual_plus_staple,
  reference_segmentation,
  overlap_results,
  surface_distance_results,
  overlap_measures_filter,
  hausdorff_distance_filter,
  reference_distance_map,
  label_intensity_statistics_filter,
  i

vars ==
  <<files, pc, lists, segmentations, reference_segmentation_majority_vote,
    manual_plus_majority_vote, reference_segmentation_STAPLE_probabilities,
    reference_segmentation_STAPLE, manual_plus_staple, reference_segmentation,
    overlap_results, surface_distance_results, overlap_measures_filter,
    hausdorff_distance_filter, reference_distance_map,
    label_intensity_statistics_filter, i>>

ListIds == {"L1", "L2", "L3"}
Unbound == "unbound"

RaterSets(labels, voxels) ==
  UNION {[1..n -> [voxels -> labels]] : n \in 1..MaxRaters}

\* the state before the first code cell that touches the data has run
InitWith(labels, voxels) ==
  /\ files \in RaterSets(labels, voxels)
  /\ pc = "cell5"
  /\ lists = [id \in ListIds |-> <<>>]
  /\ segmentations = Unbound
  /\ reference_segmentation_majority_vote = None
  /\ manual_plus_majority_vote = Unbound
  /\ reference_segmentation_STAPLE_probabilities = None
  /\ reference_segmentation_STAPLE = None
  /\ manual_plus_staple = Unbound
  /\ reference_segmentation = None
  /\ overlap_results = <<>>
  /\ surface_distance_results = <<>>
  /\ overlap_measures_filter = OverlapNotExecuted
  /\ hausdorff_distance_filter = ZeroTerm
  /\ reference_distance_map = ZeroTerm
  /\ label_intensity_statistics_filter = ZeroTerm
  /\ i = 0

\* the notebook's data: masks with the single label 1
Init == InitWith(BinaryLabels, Voxels)

\* label images with any of the labels 0..MaxLabel
InitVote == InitWith(Labels, VoteVoxels)

\* segmentations = [sitk.ReadImage(...) for file_name in segmentation_file_names]
Cell5 ==
  /\ pc = "cell5"
  /\ lists' = [lists EXCEPT !["L1"] = files]
  /\ segmentations' = "L1"
  /\ pc' = "cell7"
  /\ UNCHANGED <<files, reference_segmentation_majority_vote,
                 manual_plus_majority_vote,
                 reference_segmentation_STAPLE_probabilities,
                 reference_segmentation_STAPLE, manual_plus_staple,
                 reference_segmentation, overlap_results,
                 surface_distance_results, overlap_measures_filter,
                 hausdorff_distance_filter, reference_distance_map,
                 label_intensity_statistics_filter, i>>

\* majority vote cell: vote, copy the list, append the vote to the copy
Cell7 ==
  /\ pc = "cell7"
  /\ LET vote == LabelVoting(lists[segmentations], labelForUndecidedPixels)
         id   == list(segmentations, "L2")
     IN /\ reference_segmentation_majority_vote' = vote
        /\ manual_plus_majority_vote' = id
        /\ lists' = [lists EXCEPT ![id] = Append(lists[segmentations], vote)]
  /\ pc' = "cell8"
  /\ UNCHANGED <<files, segmentations,
                 reference_segmentation_STAPLE_probabilities,
                 reference_segmentation_STAPLE, manual_plus_staple,
                 reference_segmentation, overlap_results,
                 surface_distance_results, overlap_measures_filter,
                 hausdorff_distance_filter, reference_distance_map,
                 label_intensity_statistics_filter, i>>

\* STAPLE cell: estimate, threshold, copy the list, append to the copy
Cell8 ==
  /\ pc = "cell8"
  /\ \E prob \in STAPLE(lists[segmentations], foregroundValue) :
       LET ref == GreaterThan(prob, threshold)
           id  == list(segmentations, "L3")
       IN /\ reference_segmentation_STAPLE_probabilities' = prob
          /\ reference_segmentation_STAPLE' = ref
          /\ manual_plus_staple' = id
          /\ lists' = [lists EXCEPT ![id] = Append(lists[segmentations], ref)]
  /\ pc' = "cell10"
  /\ UNCHANGED <<files, segmentations, reference_segmentation_majority_vote,
                 manual_plus_majority_vote, reference_segmentation,
                 overlap_results, surface_distance_results,
                 overlap_measures_filter, hausdorff_distance_filter,
                 reference_distance_map, label_intensity_statistics_filter, i>>

\* evaluation cell up to the for statement
Cell10Setup ==
  /\ pc = "cell10"
  /\ reference_segmentation' = reference_segmentation_STAPLE
  /\ overlap_results' = Zeros(Len(lists[segmentations]), ZeroOverlapRow)
  /\ surface_distance_results' = Zeros(Len(lists[segmentations]), ZeroSurfaceRow)
  /\ overlap_measures_filter' = OverlapNotExecuted
  /\ hausdorff_distance_filter' = ZeroTerm
  /\ reference_distance_map' = Abs(SignedMaurerDistanceMap(reference_segmentation_STAPLE))
  /\ label_intensity_statistics_filter' = ZeroTerm
  /\ i' = 0
  /\ pc' = IF Len(lists[segmentations]) > 0 THEN "overlap" ELSE "done"
  /\ UNCHANGED <<files, lists, segmentations,
                 reference_segmentation_majority_vote,
                 manual_plus_majority_vote,
                 reference_segmentation_STAPLE_probabilities,
                 reference_segmentation_STAPLE, manual_plus_staple>>

\* the element the for statement binds to seg in iteration i
seg == lists[segmentations][i + 1]

\* loop body, overlap measures: Execute, then the five getters into row i
LoopOverlap ==
  /\ pc = "overlap"
  /\ overlap_measures_filter' = OverlapExecute(reference_segmentation, seg)
  /\ overlap_results' =
       [overlap_results EXCEPT ![i + 1] =
          [jaccard           |-> GetJaccardCoefficient(overlap_measures_filter'),
           dice              |-> GetDiceCoefficient(overlap_measures_filter'),
           volume_similarity |-> GetVolumeSimilarity(overlap_measures_filter'),
           false_negative    |-> GetFalseNegativeError(overlap_measures_filter'),
           false_positive    |-> GetFalsePositiveError(overlap_measures_filter')]]
  /\ pc' = "hausdorff"
  /\ UNCHANGED <<files, lists, segmentations,
                 reference_segmentation_majority_vote,
                 manual_plus_majority_vote,
                 reference_segmentation_STAPLE_probabilities,
                 reference_segmentation_STAPLE, manual_plus_staple,
                 reference_segmentation, surface_distance_results,
                 hausdorff_distance_filter, reference_distance_map,
                 label_intensity_statistics_filter, i>>

\* loop body, Hausdorff distance: Execute, then the getter into row i
LoopHausdorff ==
  /\ pc = "hausdorff"
  /\ hausdorff_distance_filter' = HausdorffExecute(reference_segmentation, seg)
  /\ surface_distance_results' =
       [surface_distance_results EXCEPT ![i + 1].hausdorff_distance =
          GetStatistic("GetHausdorffDistance", hausdorff_distance_filter', None)]
  /\ pc' = "surface"
  /\ UNCHANGED <<files, lists, segmentations,
                 reference_segmentation_majority_vote,
                 manual_plus_majority_vote,
                 reference_segmentation_STAPLE_probabilities,
                 reference_segmentation_STAPLE, manual_plus_staple,
                 reference_segmentation, overlap_results,
                 overlap_measures_filter, reference_distance_map,
                 label_intensity_statistics_filter, i>>

\* loop body, surface statistics: contour, Execute, the four getters into
\* row i, then the for statement advances
LoopSurface ==
  /\ pc = "surface"
  /\ label_intensity_statistics_filter' =
       StatisticsExecute(LabelContour(seg), reference_distance_map)
  /\ surface_distance_results' =
       [surface_distance_results EXCEPT
          ![i + 1].mean_surface_distance =
             GetStatistic("GetMean", label_intensity_statistics_filter', label),
          ![i + 1].median_surface_distance =
             GetStatistic("GetMedian", label_intensity_statistics_filter', label),
          ![i + 1].std_surface_distance =
             GetStatistic("GetStandardDeviation", label_intensity_statistics_filter', label),
          ![i + 1].max_surface_distance =
             GetStatistic("GetMaximum", label_intensity_statistics_filter', label)]
  /\ i' = i + 1
  /\ pc' = IF i + 1 < Len(lists[segmentations]) THEN "overlap" ELSE "done"
  /\ UNCHANGED <<files, lists, segmentations,
                 reference_segmentation_majority_vote,
                 manual_plus_majority_vote,
                 reference_segmentation_STAPLE_probabilities,
                 reference_segmentation_STAPLE, manual_plus_staple,
                 reference_segmentation, overlap_results,
                 overlap_measures_filter, hausdorff_distance_filter,
                 reference_distance_map>>

Next ==
  \/ Cell5
  \/ Cell7
  \/ Cell8
  \/ Cell10Setup
  \/ LoopOverlap
  \/ LoopHausdorff
  \/ LoopSurface

Spec == Init /\ [][Next]_vars

\* the majority vote on its own, over label images
NextVote ==
  \/ Cell5
  \/ Cell7

SpecVote == InitVote /\ [][NextVote]_vars

\* ---- properties ------------------------------------------------------------
NumRaters == Len(files)
InLoop == pc \in {"overlap", "hausdorff", "surface", "done"}

\* the labels holding the largest number of votes at voxel v
Winners(grids, v) ==
  {l \in Labels : \A k \in Labels : Votes(grids, v, k) <= Votes(grids, v, l)}

\* C1: after the majority vote cell, at every voxel the output is the label
\* with strictly more votes than every other label, and it is the undecided
\* label exactly when two or more labels share the largest count; a single
\* rater is returned unchanged, two raters that agree everywhere give their
\* common image, two raters that disagree everywhere give the undecided label
\* at every voxel.
C1_VoteIsStrictPlurality ==
  pc = "cell8" =>
    LET out == reference_segmentation_majority_vote
        V   == DOMAIN files[1]
    IN
    /\ DOMAIN out = V
    /\ \A v \in V :
         /\ \A l \in Labels :
              (\A k \in Labels \ {l} : Votes(files, v, l) > Votes(files, v, k))
                <=> out[v] = l
         /\ out[v] = labelForUndecidedPixels
              <=> Cardinality(Winners(files, v)) >= 2
         /\ out[v] \in Labels \cup {labelForUndecidedPixels}
    /\ NumRaters = 1 => out = files[1]
    /\ (NumRaters = 2 /\ files[1] = files[2]) => out = files[1]
    /\ (NumRaters = 2 /\ \A v \in V : files[1][v] # files[2][v])
         => \A v \in V : out[v] = labelForUndecidedPixels

\* three raters, a voxel on which two of them give one label and the third
\* another: the vote is the label of the two
C1_Witness ==
  /\ pc = "cell8"
  /\ NumRaters = 3
  /\ \E v \in DOMAIN files[1] : \E l \in Labels : \E k \in Labels \ {l} :
       /\ Votes(files, v, l) = 2
       /\ Votes(files, v, k) = 1
       /\ reference_segmentation_majority_vote[v] = l

\* the row the overlap getters give right after Execute(reference, candidate)
ExpectedOverlapRow(reference, candidate) ==
  LET f == OverlapExecute(reference, candidate) IN
  [jaccard           |-> GetJaccardCoefficient(f),
   dice              |-> GetDiceCoefficient(f),
   volume_similarity |-> GetVolumeSimilarity(f),
   false_negative    |-> GetFalseNegativeError(f),
   false_positive    |-> GetFalsePositiveError(f)]

ExpectedHausdorff(reference, candidate) ==
  GetStatistic("GetHausdorffDistance", HausdorffExecute(reference, candidate), None)

ExpectedStatistic(name, reference, candidate) ==
  GetStatistic(name,
               StatisticsExecute(LabelContour(candidate),
                                 Abs(SignedMaurerDistanceMap(reference))),
               label)

\* rows whose overlap / Hausdorff / surface part the loop has written so far
OverlapWritten(k) == k <= i \/ (k = i + 1 /\ pc \in {"hausdorff", "surface"})
HausdorffWritten(k) == k <= i \/ (k = i + 1 /\ pc = "surface")
SurfaceWritten(k) == k <= i

\* C10: the rater list is never changed by the two cells that append the
\* consensus image to a copy; in the evaluation loop both tables have exactly
\* one row per rater, the distance map is the one of the reference, and every
\* entry written so far is the value computed from the reference and that
\* row's own rater, every entry not yet written is still zero.
C10_RowsBelongToTheirRater ==
  /\ segmentations # Unbound => lists[segmentations] = files
  /\ InLoop =>
       /\ Len(overlap_results) = NumRaters
       /\ Len(surface_distance_results) = NumRaters
       /\ reference_distance_map = Abs(SignedMaurerDistanceMap(reference_segmentation))
       /\ pc = "done" => i = NumRaters
       /\ \A k \in 1..NumRaters :
            /\ overlap_results[k] =
                 IF OverlapWritten(k)
                 THEN ExpectedOverlapRow(reference_segmentation, files[k])
                 ELSE ZeroOverlapRow
            /\ surface_distance_results[k].hausdorff_distance =
                 IF HausdorffWritten(k)
                 THEN ExpectedHausdorff(reference_segmentation, files[k])
                 ELSE ZeroTerm
            /\ surface_distance_results[k].mean_surface_distance =
                 IF SurfaceWritten(k)
                 THEN ExpectedStatistic("GetMean", reference_segmentation, files[k])
                 ELSE ZeroTerm
            /\ surface_distance_results[k].median_surface_distance =
                 IF SurfaceWritten(k)
                 THEN ExpectedStatistic("GetMedian", reference_segmentation, files[k])
                 ELSE ZeroTerm
            /\ surface_distance_results[k].std_surface_distance =
                 IF SurfaceWritten(k)
                 THEN ExpectedStatistic("GetStandardDeviation", reference_segmentation, files[k])
                 ELSE ZeroTerm
            /\ surface_distance_results[k].max_surface_distance =
                 IF SurfaceWritten(k)
                 THEN ExpectedStatistic("GetMaximum", reference_segmentation, files[k])
                 ELSE ZeroTerm

\* the loop has finished over three raters whose rows all differ, and both
\* consensus images were appended to their own lists
C10_Witness ==
  /\ pc = "done"
  /\ NumRaters = 3
  /\ Len(lists[manual_plus_majority_vote]) = 4
  /\ Len(lists[manual_plus_staple]) = 4
  /\ \A k \in 1..3 : \A m \in 1..3 :
       k # m => /\ overlap_results[k] # overlap_results[m]
                /\ surface_distance_results[k] # surface_distance_results[m]

\* ---- the overlap measures against the reference ---------------------------
\* confusion counts of a candidate against a reference, foreground label 1
TP(reference, candidate) ==
  Count({v \in Voxels : reference[v] = 1 /\ candidate[v] = 1})
FP(reference, candidate) ==
  Count({v \in Voxels : reference[v] # 1 /\ candidate[v] = 1})
FN(reference, candidate) ==
  Count({v \in Voxels : reference[v] = 1 /\ candidate[v] # 1})
Volume(image) == Count({v \in Voxels : image[v] = 1})

\* equality of two quotients; a quotient 0/0 has no value and is not compared
RatEq(a, b) == a.num * b.den = b.num * a.den
RatNeg(a) == R(0 - a.num, a.den)

\* C6: in every finished row, false_negative is FN/(TP+FN) and
\* false_positive is FP/(TP+FP), FN counting the voxels that are foreground
\* in the reference only and FP those that are foreground in the rater only.
C6_ErrorsNotExchanged ==
  pc = "done" =>
    \A k \in 1..NumRaters :
      LET r  == reference_segmentation
          c  == files[k]
      IN /\ RatEq(overlap_results[k].false_negative, R(FN(r, c), TP(r, c) + FN(r, c)))
         /\ RatEq(overlap_results[k].false_positive, R(FP(r, c), TP(r, c) + FP(r, c)))

\* C7: in every finished row, volume_similarity is
\* 2*(V_candidate - V_reference)/(V_candidate + V_reference), positive exactly
\* when the rater has more foreground than the reference, zero exactly when
\* the volumes are equal, strictly between -2 and 2, and of opposite sign
\* when the two images are exchanged.  (Stated for the pairs with a
\* foreground voxel in at least one image, where the quotient has a value.)
C7_VolumeSimilaritySign ==
  pc = "done" =>
    \A k \in 1..NumRaters :
      LET vr == Volume(reference_segmentation)
          vc == Volume(files[k])
          vs == overlap_results[k].volume_similarity
      IN (vr + vc > 0) =>
           /\ RatEq(vs, R(2 * (vc - vr), vc + vr))
           /\ vs.num > 0 <=> vc > vr
           /\ vs.num = 0 <=> vc = vr
           /\ vs.num < 2 * vs.den /\ vs.num > 0 - 2 * vs.den
           /\ RatEq(GetVolumeSimilarity(OverlapExecute(files[k], reference_segmentation)),
                    RatNeg(vs))

====
